---- MODULE Spec2Model ----
(***************************************************************************)
(* Release tracker (src/main.py): the registry `tracked_repos`, the table  *)
(* that renders it, the status label, the persisted file, and the handlers *)
(* add_repo_from_input, delete_selected, on_item_changed, update_releases. *)
(*                                                                         *)
(* Python strings that the code parses, compares or searches (URLs, names, *)
(* asset names) are sequences of one-character strings.  Python's None in  *)
(* a string field is the one-element sequence None.                        *)
(***************************************************************************)
EXTENDS Integers, Sequences, FiniteSets, TLC

(***************************************************************************)
(* Python str operations                                                   *)
(***************************************************************************)
UpperAlphabet == <<"A","B","C","D","E","F","G","H","I","J","K","L","M",
                   "N","O","P","Q","R","S","T","U","V","W","X","Y","Z">>

LowerAlphabet == <<"a","b","c","d","e","f","g","h","i","j","k","l","m",
                   "n","o","p","q","r","s","t","u","v","w","x","y","z">>

DigitChars == {"0","1","2","3","4","5","6","7","8","9"}

Range(s) == {s[i] : i \in DOMAIN s}

\* str.lower() on one character
LowerChar(c) ==
    IF \E i \in DOMAIN UpperAlphabet : UpperAlphabet[i] = c
    THEN LowerAlphabet[CHOOSE i \in DOMAIN UpperAlphabet : UpperAlphabet[i] = c]
    ELSE c

\* str.lower()
Lower(s) == [i \in DOMAIN s |-> LowerChar(s[i])]

\* s[i:] with a 1-based first index
From(s, i) == SubSeq(s, i, Len(s))

\* s[:i] exclusive of the 1-based index i
Upto(s, i) == SubSeq(s, 1, i - 1)

\* str.startswith
StartsWith(s, p) == Len(p) <= Len(s) /\ SubSeq(s, 1, Len(p)) = p

\* str.endswith
EndsWith(s, p) == Len(p) <= Len(s) /\ SubSeq(s, Len(s) - Len(p) + 1, Len(s)) = p

\* `sub in s`
Contains(s, sub) ==
    \E i \in 1..(Len(s) - Len(sub) + 1) : SubSeq(s, i, i + Len(sub) - 1) = sub

\* str.find for a set of one-character delimiters, searching from index `start`;
\* Len(s) + 1 when none occurs
FindAny(s, chars, start) ==
    IF \E i \in start..Len(s) : s[i] \in chars
    THEN CHOOSE i \in start..Len(s) :
             /\ s[i] \in chars
             /\ \A j \in start..(i - 1) : s[j] \notin chars
    ELSE Len(s) + 1

\* str.strip(chars)
RECURSIVE LStrip(_, _)
LStrip(s, chars) ==
    IF s # <<>> /\ Head(s) \in chars THEN LStrip(Tail(s), chars) ELSE s

RECURSIVE RStrip(_, _)
RStrip(s, chars) ==
    IF s # <<>> /\ s[Len(s)] \in chars THEN RStrip(Upto(s, Len(s)), chars) ELSE s

Strip(s, chars) == RStrip(LStrip(s, chars), chars)

Whitespace == {" "}

\* str.split(sep) for a one-character separator: always at least one part
RECURSIVE Split(_, _)
SplitAt(s, sep, i) ==
    IF i > Len(s) THEN <<s>>
    ELSE <<Upto(s, i)>> \o Split(From(s, i + 1), sep)

Split(s, sep) == SplitAt(s, sep, FindAny(s, {sep}, 1))

\* str.partition(sep) for a one-character separator, without the separator
PartitionAt(s, i) ==
    [head |-> Upto(s, i), tail |-> IF i <= Len(s) THEN From(s, i + 1) ELSE <<>>]

Partition(s, sep) == PartitionAt(s, FindAny(s, {sep}, 1))

\* Python's None where a string is expected
None == <<"None">>

(***************************************************************************)
(* urllib.parse                                                            *)
(***************************************************************************)
SchemeChars == Range(UpperAlphabet) \cup Range(LowerAlphabet) \cup DigitChars
               \cup {"+", "-", "."}

Letters == Range(UpperAlphabet) \cup Range(LowerAlphabet)

\* the scheme, when the text before the first ":" (at index i) is one
SplitScheme(url, i) ==
    IF /\ i <= Len(url)
       /\ i > 1
       /\ url[1] \in Letters
       /\ \A j \in 1..(i - 1) : url[j] \in SchemeChars
    THEN [scheme |-> Lower(Upto(url, i)), rest |-> From(url, i + 1)]
    ELSE [scheme |-> <<>>, rest |-> url]

\* the netloc, when the rest starts with "//": up to the first of "/", "?",
\* "#" (at index delim)
SplitNetloc(rest, delim) ==
    IF StartsWith(rest, <<"/", "/">>)
    THEN [netloc |-> SubSeq(rest, 3, delim - 1), rest |-> From(rest, delim)]
    ELSE [netloc |-> <<>>, rest |-> rest]

UrlParts(scheme, netloc, fragment, q) ==
    [scheme |-> scheme, netloc |-> netloc, path |-> q.head,
     query |-> q.tail, fragment |-> fragment]

UrlAfterFragment(scheme, netloc, f) ==
    UrlParts(scheme, netloc, f.tail, Partition(f.head, "?"))

UrlAfterNetloc(scheme, n) ==
    UrlAfterFragment(scheme, n.netloc, Partition(n.rest, "#"))

UrlAfterScheme(s) ==
    UrlAfterNetloc(s.scheme,
                   SplitNetloc(s.rest, FindAny(s.rest, {"/", "?", "#"}, 3)))

\* urlparse(url): the scheme up to the first ":", the netloc after "//",
\* then the fragment after "#" and the query after "?"
urlparse(url) == UrlAfterScheme(SplitScheme(url, FindAny(url, {":"}, 1)))

\* a name=value pair of a query string whose value is not blank, "=" at index e
HasValue(pair, e) == e <= Len(pair) /\ From(pair, e + 1) # <<>>

QueryNames(pairs) ==
    { Upto(pairs[k], FindAny(pairs[k], {"="}, 1)) :
        k \in { k \in DOMAIN pairs :
                  HasValue(pairs[k], FindAny(pairs[k], {"="}, 1)) } }

\* parse_qs(query).keys(): the names of the name=value pairs, split at "&",
\* whose value is not blank (keep_blank_values is off)
parse_qs(query) == QueryNames(Split(query, "&"))

(***************************************************************************)
(* String constants of the program and of the inputs                       *)
(***************************************************************************)
HttpsPrefix == <<"h","t","t","p","s",":","/","/">>

GithubCom == <<"g","i","t","h","u","b",".","c","o","m">>

FarmingSimulatorCom == <<"f","a","r","m","i","n","g","-","s","i","m","u","l","a","t","o","r",".","c","o","m">>

WwwFarmingSimulatorCom == <<"w","w","w",".">> \o FarmingSimulatorCom

ModPhp == <<"/","m","o","d",".","p","h","p">>

ModId == <<"m","o","d","_","i","d">>

DotZip == <<".","z","i","p">>

NA == <<"N","/","A">>

ParseErrorName == <<"p","a","r","s","e"," ","e","r","r","o","r">>

VersionLabel == <<"V","e","r","s","i","o","n">>

ReleasedLabel == <<"R","e","l","e","a","s","e","d">>

\* the URLs a user types into url_input
UrlGhAX == HttpsPrefix \o GithubCom \o <<"/","a","/","x">>

UrlMod5 == HttpsPrefix \o WwwFarmingSimulatorCom \o ModPhp \o <<"?","m","o","d","_","i","d","=","5">>

UrlGhUpper == HttpsPrefix \o <<"G","i","t","H","u","b",".","c","o","m","/","a","/","y">>

UrlModRef == HttpsPrefix \o FarmingSimulatorCom \o ModPhp
             \o <<"?","m","o","d","_","i","d","=","7","&","r","e","f","=">> \o GithubCom

UrlGhFoo == HttpsPrefix \o GithubCom \o <<"/","f","o","o">>

UrlInputs == {<<" ">> \o UrlGhAX \o <<" ">>, UrlMod5, UrlGhUpper, UrlModRef,
              UrlGhFoo, <<>>}

\* the names a user types into column 0 of the table
NameInputs == {<<"y">>}

(***************************************************************************)
(* validate_repo_url, get_owner_repo                                       *)
(***************************************************************************)
\* ValidHostPath without the test for "mod_id"
ValidHostPathAnyQuery(netloc, path_parts, parsed) ==
    IF netloc = GithubCom
    THEN /\ Len(path_parts) >= 2
         /\ path_parts[1] # <<>>
         /\ path_parts[2] # <<>>
    ELSE IF netloc \in {WwwFarmingSimulatorCom, FarmingSimulatorCom}
    THEN parsed.path = ModPhp
    ELSE FALSE

ValidHostPath(netloc, path_parts, parsed) ==
    IF netloc = GithubCom
    THEN /\ Len(path_parts) >= 2
         /\ path_parts[1] # <<>>
         /\ path_parts[2] # <<>>
    ELSE IF netloc \in {WwwFarmingSimulatorCom, FarmingSimulatorCom}
    THEN /\ parsed.path = ModPhp
         /\ ModId \in parse_qs(parsed.query)
    ELSE FALSE

ValidParsed(parsed) ==
    ValidHostPath(Lower(parsed.netloc),
                  Split(Strip(parsed.path, {"/"}), "/"), parsed)

validate_repo_url(url) == ValidParsed(urlparse(url))

\* parts[0], parts[1]; raises IndexError when the path has one segment
OwnerRepoOf(parts) ==
    [raises |-> Len(parts) < 2,
     owner  |-> parts[1],
     repo   |-> IF Len(parts) >= 2 THEN parts[2] ELSE None]

get_owner_repo(url) == OwnerRepoOf(Split(Strip(urlparse(url).path, {"/"}), "/"))

\* The if/elif on the key that update_releases and delete_selected share:
\* "github.com" in url, else "farming-simulator.com" in url
Branch(url) ==
    IF Contains(url, GithubCom) THEN "github"
    ELSE IF Contains(url, FarmingSimulatorCom) THEN "farming-simulator"
    ELSE "none"

\* Every text url_input.text().strip() can be.  The three functions below
\* hold validate_repo_url, get_owner_repo and Branch of each, so that a
\* handler looks the value up instead of parsing the text again.
Urls == {Strip(text, Whitespace) : text \in UrlInputs}

IsValid == [url \in Urls |-> validate_repo_url(url)]

OwnerRepo == [url \in Urls |-> get_owner_repo(url)]

BranchOf == [url \in Urls |-> Branch(url)]

(***************************************************************************)
(* Release snapshots: the values of "last_release" and "previous_release". *)
(* py tells Python's None, the empty dict {} and a dict with the six keys  *)
(* apart; dict.get of a missing key is None (False for "is_new").          *)
(***************************************************************************)
PyNone ==
    [py |-> "None", version |-> None, date |-> None, asset_url |-> None,
     asset_name |-> None, is_new |-> FALSE, name |-> None]

EmptyDict == [PyNone EXCEPT !.py = "empty"]

\* `r or {}`: None and {} are falsy
OrEmpty(r) == IF r.py = "dict" THEN r ELSE EmptyDict

\* {"last_release": None, "previous_release": None}
NewEntry(url) == [url |-> url, last_release |-> PyNone, previous_release |-> PyNone]

(***************************************************************************)
(* Upstream responses                                                      *)
(***************************************************************************)
V10 == <<"1",".","0">>

V11 == <<"1",".","1">>

Date1 == <<"d","1">>

Date2 == <<"d","2">>

NoBody == [none |-> TRUE]

\* requests.get raised (no connection)
Unreachable == [kind |-> "raise", status_code |-> 0, body |-> NoBody]

\* an HTTP answer that is not a success
NotFound == [kind |-> "http", status_code |-> 404, body |-> NoBody]

Ok(body) == [kind |-> "http", status_code |-> 200, body |-> body]

MZip == [name |-> <<"m",".","z","i","p">>, browser_download_url |-> <<"X">>]

NotesTxt == [name |-> <<"n","o","t","e","s",".","t","x","t">>, browser_download_url |-> <<"T">>]

UpperZip == [name |-> <<"M",".","Z","I","P">>, browser_download_url |-> <<"Y">>]

\* bodies of GET .../releases/latest
GitHubBodies ==
    { [tag_name |-> V10, published_at |-> Date1, assets |-> <<MZip>>],
      [tag_name |-> V11, published_at |-> Date1, assets |-> <<MZip>>],
      [tag_name |-> V10, published_at |-> Date1, assets |-> <<NotesTxt, UpperZip>>] }

GitHubResponses == {Unreachable, NotFound} \cup {Ok(b) : b \in GitHubBodies}

\* mod pages as BeautifulSoup finds them: the text of div.modtitle and of h1
\* (None when the tag is missing), the lines of the div.modinfo blocks, and
\* the href of every link
ModPages ==
    { [modtitle |-> <<" ","x"," ">>, h1 |-> None,
       modinfo |-> <<VersionLabel \o <<" ">> \o V10, ReleasedLabel \o <<" ">> \o Date1>>,
       hrefs |-> <<<<"/","a","b","o","u","t">>, <<"/","m",".","z","i","p">>>>],
      [modtitle |-> None, h1 |-> <<"m","o","d">>,
       modinfo |-> <<VersionLabel \o <<" ">> \o V10, ReleasedLabel \o <<" ">> \o Date2>>,
       hrefs |-> <<<<"/","m",".","z","i","p">>>>],
      [modtitle |-> None, h1 |-> None, modinfo |-> <<>>, hrefs |-> <<>>] }

ModResponses == {Unreachable, NotFound} \cup {Ok(b) : b \in ModPages}

(***************************************************************************)
(* parse_farming_simulator_mod                                             *)
(***************************************************************************)
\* the indices at which label occurs in line
Occurrences(line, label) ==
    {i \in 1..(Len(line) - Len(label) + 1) :
        SubSeq(line, i, i + Len(label) - 1) = label}

Max(S) == CHOOSE i \in S : \A j \in S : j <= i

\* line.split(label)[-1]: what follows the last occurrence of label
AfterLast(line, label) ==
    IF Occurrences(line, label) = {} THEN line
    ELSE From(line, Max(Occurrences(line, label)) + Len(label))

\* the value after `label` on the last line that holds it, "N/A" if none does
RECURSIVE ScanInfo(_, _, _)
ScanInfo(lines, label, found) ==
    IF lines = <<>> THEN found
    ELSE ScanInfo(Tail(lines), label,
                  IF Contains(Head(lines), label)
                  THEN Strip(AfterLast(Head(lines), label), Whitespace)
                  ELSE found)

\* the first entry whose lower-cased text ends in ".zip"; 0 if there is none
FirstZip(names) ==
    IF \E i \in DOMAIN names : EndsWith(Lower(names[i]), DotZip)
    THEN CHOOSE i \in DOMAIN names :
             /\ EndsWith(Lower(names[i]), DotZip)
             /\ \A j \in 1..(i - 1) : ~EndsWith(Lower(names[j]), DotZip)
    ELSE 0

ParseError ==
    [name |-> ParseErrorName, version |-> NA, date |-> NA,
     asset_url |-> None, asset_name |-> None]

\* soup.find("div", class_="modtitle"), else soup.find("h1"); its stripped text
ModName(page) ==
    IF page.modtitle # None THEN Strip(page.modtitle, Whitespace)
    ELSE IF page.h1 # None THEN Strip(page.h1, Whitespace)
    ELSE NA

\* a relative link resolved against the site
ZipUrl(href) ==
    IF href # None /\ StartsWith(href, <<"/">>)
    THEN HttpsPrefix \o WwwFarmingSimulatorCom \o href
    ELSE href

\* zip_url.split("/")[-1]
LastPart(parts) == parts[Len(parts)]

ModInfo(page, zip_url) ==
    [name       |-> ModName(page),
     version    |-> ScanInfo(page.modinfo, VersionLabel, NA),
     date       |-> ScanInfo(page.modinfo, ReleasedLabel, NA),
     asset_url  |-> zip_url,
     asset_name |-> IF zip_url # None THEN LastPart(Split(zip_url, "/")) ELSE None]

\* the href of the first link to a .zip, None if there is none
ZipHref(hrefs, z) == IF z = 0 THEN None ELSE hrefs[z]

parse_farming_simulator_mod(response) ==
    IF response.kind = "raise" \/ response.status_code >= 400
    THEN ParseError
    ELSE ModInfo(response.body,
                 ZipUrl(ZipHref(response.body.hrefs, FirstZip(response.body.hrefs))))

(***************************************************************************)
(* Bounds                                                                  *)
(***************************************************************************)
\* most sources the registry holds
MaxSources == 2

\* most handler calls in one run
MaxOps == 4

(***************************************************************************)
(* State                                                                   *)
(***************************************************************************)
VARIABLES
    tracked_repos,  \* self.tracked_repos without "_column_widths": the entries
                    \* [url, last_release, previous_release] in insertion order
    table,          \* self.table: the text of column 0 of every row
    status_label,   \* self.status_label: [msg, about]
    data_file,      \* what repositories.json holds: the text json.dump wrote
    writes,         \* the texts the last handler call wrote to repositories.json,
                    \* one for every save_data it made
    ops,            \* handler calls so far
    last,           \* the last handler call: its name, inputs, the registry and
                    \* table it started from, and what update_releases met
    before,         \* name and responses of the handler call before `last`
    probe,          \* a text handed to validate_repo_url, and its answer
    mods_dir,       \* the mods folder: the file, if any, each name refers to
    files,          \* the content of every file created in the mods folder
    threads         \* the download threads started by download_release

vars == <<tracked_repos, table, status_label, data_file, writes, ops, last, before,
          probe, mods_dir, files, threads>>

\* what the handlers of the registry leave alone
other_vars == <<probe, mods_dir, files, threads>>

Status(msg, about) == [msg |-> msg, about |-> about]

Keys(repos) == [i \in DOMAIN repos |-> repos[i].url]

\* update_table: column 0 is (last_release or {}).get("name", "N/A")
update_table(repos) ==
    [i \in DOMAIN repos |->
        IF repos[i].last_release.py = "dict" THEN repos[i].last_release.name ELSE NA]

\* get_url_by_row: 0 when the row has no key (Python's None), else the
\* 1-based position of the key
get_url_by_row(repos, row) ==
    IF 0 <= row /\ row < Len(repos) THEN row + 1 ELSE 0

\* json.dump(self.tracked_repos, f): the text of the dict as the pieces the
\* encoder hands to f.write.  "_column_widths" is the first key: save_data sets
\* it before any source is added, and load_data keeps the file's key order.
Piece(tok, repo) == [tok |-> tok, repo |-> repo]

OpenBrace == Piece("{", NewEntry(<<>>))

CloseBrace == Piece("}", NewEntry(<<>>))

ColumnWidths == Piece("_column_widths", NewEntry(<<>>))

json_dump(repos) ==
    <<OpenBrace, ColumnWidths>> \o [i \in DOMAIN repos |-> Piece("key", repos[i])]
        \o <<CloseBrace>>

\* json.load(f) raises unless the text is a whole object
WellFormed(text) ==
    /\ Len(text) >= 3
    /\ text[1] = OpenBrace
    /\ text[2] = ColumnWidths
    /\ text[Len(text)] = CloseBrace
    /\ \A i \in 3..(Len(text) - 1) : text[i].tok = "key"

\* load_data: the registry the file holds, without "_column_widths"; {} when
\* json.load raises
load_data(text) ==
    IF WellFormed(text)
    THEN [i \in 1..(Len(text) - 3) |-> text[i + 2].repo]
    ELSE <<>>

\* save_data: open(..., "w") empties the file and json.dump writes the new text
save_data(repos) == json_dump(repos)

\* What update_table does besides filling the table: each of its two
\* setItem(row, 0, ...) emits itemChanged, which runs on_item_changed with the
\* name the cell shows.  For a row whose "last_release" is a dict that stores
\* the name it already has and calls save_data; for a row whose "last_release"
\* is None the slot raises TypeError and stores nothing.  The result is the
\* texts these calls write, from row i on.
RECURSIVE ItemChangedSaves(_, _)
ItemChangedSaves(repos, i) ==
    IF i > Len(repos) THEN <<>>
    ELSE (IF repos[i].last_release.py = "dict"
          THEN <<save_data(repos), save_data(repos)>>
          ELSE <<>>) \o ItemChangedSaves(repos, i + 1)

NoLog == <<>>

NoResponse == [kind |-> "none", status_code |-> 0, body |-> NoBody]

Call(op, url, rows, row, column, text, log) ==
    [op |-> op, url |-> url, rows |-> rows, row |-> row, column |-> column,
     text |-> text, log |-> log, pre |-> tracked_repos, pre_table |-> table]

Remember == [op |-> last.op, log |-> last.log]

(***************************************************************************)
(* add_repo_from_input                                                     *)
(***************************************************************************)
\* AddUrl that puts the new key before the keys the registry holds
AddUrlFirst(url) ==
    /\ ops < MaxOps
    /\ ops' = ops + 1
    /\ last' = Call("add_repo_from_input", url, {}, 0, 0, <<>>, NoLog)
    /\ before' = Remember
    /\ IF url = <<>> \/ ~IsValid[url]
          \/ \E i \in DOMAIN tracked_repos : tracked_repos[i].url = url
       THEN /\ status_label' = Status("rejected", <<>>)
            /\ writes' = <<>>
            /\ UNCHANGED <<tracked_repos, table, data_file>>
       ELSE /\ Len(tracked_repos) < MaxSources
            /\ tracked_repos' = <<NewEntry(url)>> \o tracked_repos
            /\ data_file' = save_data(tracked_repos')
            /\ writes' = <<data_file'>>
            /\ table' = update_table(tracked_repos')
            /\ status_label' = Status("added", <<>>)

\* AddUrl in which the test for a key the registry holds comes after the
\* assignment: the entry of the key is replaced by a new one
AddUrlOverwrite(url) ==
    /\ ops < MaxOps
    /\ ops' = ops + 1
    /\ last' = Call("add_repo_from_input", url, {}, 0, 0, <<>>, NoLog)
    /\ before' = Remember
    /\ IF url = <<>> \/ ~IsValid[url]
       THEN /\ status_label' = Status("invalid url", <<>>)
            /\ writes' = <<>>
            /\ UNCHANGED <<tracked_repos, table, data_file>>
       ELSE IF \E i \in DOMAIN tracked_repos : tracked_repos[i].url = url
       THEN /\ tracked_repos' =
                   [i \in DOMAIN tracked_repos |->
                       IF tracked_repos[i].url = url THEN NewEntry(url)
                       ELSE tracked_repos[i]]
            /\ status_label' = Status("already tracked", <<>>)
            /\ writes' = <<>>
            /\ UNCHANGED <<table, data_file>>
       ELSE /\ Len(tracked_repos) < MaxSources
            /\ tracked_repos' = Append(tracked_repos, NewEntry(url))
            /\ data_file' = save_data(tracked_repos')
            /\ writes' = <<data_file'>>
            /\ table' = update_table(tracked_repos')
            /\ status_label' = Status("added", <<>>)

\* add_repo_from_input once url_input.text().strip() is known
AddUrl(url) ==
    /\ ops < MaxOps
    /\ ops' = ops + 1
    /\ last' = Call("add_repo_from_input", url, {}, 0, 0, <<>>, NoLog)
    /\ before' = Remember
    /\ IF url = <<>>
       THEN /\ status_label' = Status("enter a link", <<>>)
            /\ writes' = <<>>
            /\ UNCHANGED <<tracked_repos, table, data_file>>
       ELSE IF ~IsValid[url]
       THEN /\ status_label' = Status("invalid url", <<>>)
            /\ writes' = <<>>
            /\ UNCHANGED <<tracked_repos, table, data_file>>
       ELSE IF \E i \in DOMAIN tracked_repos : tracked_repos[i].url = url
       THEN /\ status_label' = Status("already tracked", <<>>)
            /\ writes' = <<>>
            /\ UNCHANGED <<tracked_repos, table, data_file>>
       ELSE /\ Len(tracked_repos) < MaxSources
            /\ tracked_repos' = Append(tracked_repos, NewEntry(url))
            /\ data_file' = save_data(tracked_repos')
            /\ writes' = <<data_file'>> \o ItemChangedSaves(tracked_repos', 1)
            /\ table' = update_table(tracked_repos')
            /\ status_label' = Status("added", <<>>)

add_repo_from_input(text) == AddUrl(Strip(text, Whitespace))

(***************************************************************************)
(* on_item_changed                                                         *)
(***************************************************************************)
\* lines 230-235 for the key at position k (0: the row has no key)
SetName(column, k, text) ==
    IF column = 0 /\ k # 0 /\ tracked_repos[k].last_release.py = "dict"
    THEN /\ tracked_repos' = [tracked_repos EXCEPT ![k].last_release.name = text]
         /\ data_file' = save_data(tracked_repos')
         /\ writes' = <<data_file'>>
         /\ status_label' = Status("name updated", text)
    ELSE \* another column, no key for the row, or TypeError: the value of
         \* "last_release" is None and cannot be assigned into
         /\ writes' = <<>>
         /\ UNCHANGED <<tracked_repos, data_file, status_label>>

\* the item of (row, column) now holds `text`
on_item_changed(row, column, text) ==
    /\ ops < MaxOps
    /\ ops' = ops + 1
    /\ row \in 0..(Len(table) - 1)
    /\ last' = Call("on_item_changed", <<>>, {}, row, column, text, NoLog)
    /\ before' = Remember
    /\ table' = IF column = 0 THEN [table EXCEPT ![row + 1] = text] ELSE table
    /\ SetName(column, get_url_by_row(tracked_repos, row), text)

(***************************************************************************)
(* delete_selected                                                         *)
(***************************************************************************)
\* The inner loop of delete_selected for one selected row: the position of
\* the first key the row's name matches (0 if none does), or the
\* AttributeError of None.get raised on the way to it
RECURSIVE FindByName(_, _, _)
FindByName(repos, i, repo_name) ==
    IF i > Len(repos) THEN [raised |-> FALSE, at |-> 0]
    ELSE IF BranchOf[repos[i].url] = "github"
    THEN IF OwnerRepo[repos[i].url].raises
         THEN FindByName(repos, i + 1, repo_name)
         ELSE IF OwnerRepo[repos[i].url].repo = repo_name
         THEN [raised |-> FALSE, at |-> i]
         ELSE FindByName(repos, i + 1, repo_name)
    ELSE IF BranchOf[repos[i].url] = "farming-simulator"
    THEN IF repos[i].last_release.py = "None"
         THEN [raised |-> TRUE, at |-> 0]
         ELSE IF repos[i].last_release.name = repo_name
         THEN [raised |-> FALSE, at |-> i]
         ELSE FindByName(repos, i + 1, repo_name)
    ELSE FindByName(repos, i + 1, repo_name)

\* urls_to_delete, as positions in the registry
urls_to_delete(repos, tbl, selected_rows) ==
    {FindByName(repos, 1, tbl[row + 1]).at : row \in selected_rows} \ {0}

\* the registry without the entries at the positions in `gone`
RECURSIVE Pop(_, _, _)
Pop(repos, i, gone) ==
    IF i > Len(repos) THEN <<>>
    ELSE (IF i \in gone THEN <<>> ELSE <<repos[i]>>) \o Pop(repos, i + 1, gone)

delete_selected(selected_rows) ==
    /\ ops < MaxOps
    /\ ops' = ops + 1
    /\ selected_rows \subseteq 0..(Len(table) - 1)
    /\ last' = Call("delete_selected", <<>>, selected_rows, 0, 0, <<>>, NoLog)
    /\ before' = Remember
    /\ IF selected_rows = {}
       THEN /\ status_label' = Status("select a row", <<>>)
            /\ writes' = <<>>
            /\ UNCHANGED <<tracked_repos, table, data_file>>
       ELSE IF \E row \in selected_rows :
                   FindByName(tracked_repos, 1, table[row + 1]).raised
       THEN \* the exception leaves the handler before anything is removed
            /\ writes' = <<>>
            /\ UNCHANGED <<tracked_repos, table, data_file, status_label>>
       ELSE /\ tracked_repos' =
                   Pop(tracked_repos, 1,
                       urls_to_delete(tracked_repos, table, selected_rows))
            /\ data_file' = save_data(tracked_repos')
            /\ writes' = <<data_file'>> \o ItemChangedSaves(tracked_repos', 1)
            /\ table' = update_table(tracked_repos')
            /\ status_label' = Status("deleted", <<>>)

(***************************************************************************)
(* update_releases                                                         *)
(***************************************************************************)
\* what the GitHub branch reads from the body of a 200 response; z is the
\* position of the first asset whose name ends in ".zip", 0 if none does
GitHubFields(url, latest, z) ==
    [name       |-> OwnerRepo[url].repo,
     version    |-> latest.tag_name,
     date       |-> latest.published_at,
     asset_url  |-> IF z = 0 THEN None ELSE latest.assets[z].browser_download_url,
     asset_name |-> IF z = 0 THEN None ELSE latest.assets[z].name]

GitHubRelease(url, latest) ==
    GitHubFields(url, latest,
                 FirstZip([i \in DOMAIN latest.assets |-> latest.assets[i].name]))

\* GitHubRelease of every key that has an owner and a repo and every body,
\* and parse_farming_simulator_mod of every response, for looking up
GitHubReleaseOf ==
    [url \in {u \in Urls : ~OwnerRepo[u].raises}, latest \in GitHubBodies |->
        GitHubRelease(url, latest)]

ModInfoOf == [response \in ModResponses |-> parse_farming_simulator_mod(response)]

\* Differs with the comparison of asset_url left out
DiffersByVersion(fetched, current) == fetched.version # current.version

\* Differs that also compares the date
DiffersOrDate(fetched, current) ==
    \/ fetched.version # current.version
    \/ fetched.asset_url # current.asset_url
    \/ fetched.date # current.date

\* new_version != current.get("version") or asset_url != current.get("asset_url")
Differs(fetched, current) ==
    \/ fetched.version # current.version
    \/ fetched.asset_url # current.asset_url

\* the dict stored as "last_release" on a change
NewRelease(fetched) ==
    [py |-> "dict", version |-> fetched.version, date |-> fetched.date,
     asset_url |-> fetched.asset_url, asset_name |-> fetched.asset_name,
     is_new |-> TRUE, name |-> fetched.name]

\* Rotate with the two assignments in the other order: "previous_release"
\* is read from "last_release" after the new dict is stored there
RotateStoreFirst(entry, fetched) ==
    LET current == OrEmpty(entry.last_release)
    IN  IF Differs(fetched, current)
        THEN [entry   |-> [entry EXCEPT !.previous_release = NewRelease(fetched),
                                        !.last_release = NewRelease(fetched)],
              updated |-> TRUE, raised |-> FALSE]
        ELSE IF entry.last_release.py = "dict"
        THEN [entry   |-> [entry EXCEPT !.last_release.is_new = FALSE],
              updated |-> FALSE, raised |-> FALSE]
        ELSE [entry |-> entry, updated |-> FALSE, raised |-> TRUE]

\* Rotate that compares only when there is a current snapshot
\* (`if current and (...)`), so a first fetch falls to the else branch
RotateKnownOnly(entry, fetched) ==
    LET current == OrEmpty(entry.last_release)
    IN  IF entry.last_release.py = "dict" /\ Differs(fetched, current)
        THEN [entry   |-> [entry EXCEPT !.previous_release = current,
                                        !.last_release = NewRelease(fetched)],
              updated |-> TRUE, raised |-> FALSE]
        ELSE IF entry.last_release.py = "dict"
        THEN [entry   |-> [entry EXCEPT !.last_release.is_new = FALSE],
              updated |-> FALSE, raised |-> FALSE]
        ELSE [entry |-> entry, updated |-> FALSE, raised |-> TRUE]

\* The comparison and what follows it, for one entry, the release read from
\* upstream and current = (last_release or {}).  raised: the TypeError of
\* None["is_new"] = False.
RotateFrom(entry, fetched, current) ==
    IF Differs(fetched, current)
    THEN [entry   |-> [entry EXCEPT !.previous_release = current,
                                    !.last_release = NewRelease(fetched)],
          updated |-> TRUE, raised |-> FALSE]
    ELSE IF entry.last_release.py = "dict"
    THEN [entry   |-> [entry EXCEPT !.last_release.is_new = FALSE],
          updated |-> FALSE, raised |-> FALSE]
    ELSE [entry |-> entry, updated |-> FALSE, raised |-> TRUE]

Rotate(entry, fetched) == RotateFrom(entry, fetched, OrEmpty(entry.last_release))

\* what a pass of the loop body leaves: the entry, whether it set `updated`,
\* whether it ended in the except clause, and the text it wrote to
\* status_label, if any
Raised(entry) ==
    [entry |-> entry, updated |-> FALSE, raised |-> TRUE,
     label |-> <<Status("update error", entry.url)>>]

Untouched(entry, label) ==
    [entry |-> entry, updated |-> FALSE, raised |-> FALSE, label |-> label]

Compared(entry, r) ==
    IF r.raised THEN Raised(entry)
    ELSE [entry |-> r.entry, updated |-> r.updated, raised |-> FALSE,
          label |-> <<>>]

\* lines 313-341, with o = get_owner_repo(url)
UpdateGitHub(entry, response, o) ==
    IF o.raises \/ response.kind = "raise" THEN Raised(entry)
    ELSE IF response.status_code = 200
    THEN Compared(entry, Rotate(entry, GitHubReleaseOf[entry.url, response.body]))
    ELSE Untouched(entry, <<Status("fetch error", o.owner \o <<"/">> \o o.repo)>>)

\* one pass of the loop body for one key, given the response upstream gives
\* when asked
UpdateOne(entry, response) ==
    IF BranchOf[entry.url] = "github"
    THEN UpdateGitHub(entry, response, OwnerRepo[entry.url])
    ELSE IF BranchOf[entry.url] = "farming-simulator"
    THEN Compared(entry, Rotate(entry, ModInfoOf[response]))
    ELSE Untouched(entry, <<>>)

\* the responses upstream can give to the request the loop body makes for a
\* key; NoResponse when the body makes no request
ResponsesFor(url) ==
    IF BranchOf[url] = "github"
    THEN IF OwnerRepo[url].raises THEN {NoResponse} ELSE GitHubResponses
    ELSE IF BranchOf[url] = "farming-simulator" THEN ModResponses
    ELSE {NoResponse}

\* Passed that drops the key of a pass that met no usable answer
PassedDropFailed(acc, entry, response, r) ==
    [repos   |-> IF response.kind = "http" /\ response.status_code = 200
                 THEN Append(acc.repos, r.entry) ELSE acc.repos,
     updated |-> acc.updated \/ r.updated,
     label   |-> IF r.label = <<>> THEN acc.label ELSE r.label[1],
     log     |-> Append(acc.log,
                    [url |-> entry.url, branch |-> BranchOf[entry.url],
                     response |-> response, raised |-> r.raised,
                     updated |-> r.updated])]

\* what the loop has done so far, after one more pass with result r
Passed(acc, entry, response, r) ==
    [repos   |-> Append(acc.repos, r.entry),
     updated |-> acc.updated \/ r.updated,
     label   |-> IF r.label = <<>> THEN acc.label ELSE r.label[1],
     log     |-> Append(acc.log,
                    [url |-> entry.url, branch |-> BranchOf[entry.url],
                     response |-> response, raised |-> r.raised,
                     updated |-> r.updated])]

\* the keys from i on get no pass
Skipped(acc, repos, i) ==
    [acc EXCEPT
        !.repos = acc.repos \o SubSeq(repos, i, Len(repos)),
        !.log   = acc.log \o
                  [k \in 1..(Len(repos) - i + 1) |->
                      [url |-> repos[i + k - 1].url,
                       branch |-> BranchOf[repos[i + k - 1].url],
                       response |-> NoResponse, raised |-> FALSE,
                       updated |-> FALSE]]]

\* UpdateLoop with the try/except outside the for loop: the first pass that
\* raises ends the loop, and the keys after it get no pass
RECURSIVE UpdateLoopTryOutside(_, _, _, _)
UpdateLoopTryOutside(repos, responses, i, acc) ==
    IF i > Len(repos) THEN acc
    ELSE IF UpdateOne(repos[i], responses[i]).raised
    THEN Skipped(Passed(acc, repos[i], responses[i],
                        UpdateOne(repos[i], responses[i])), repos, i + 1)
    ELSE UpdateLoopTryOutside(repos, responses, i + 1,
             Passed(acc, repos[i], responses[i],
                    UpdateOne(repos[i], responses[i])))

\* the for loop of update_releases from key i on
RECURSIVE UpdateLoop(_, _, _, _)
UpdateLoop(repos, responses, i, acc) ==
    IF i > Len(repos) THEN acc
    ELSE UpdateLoop(repos, responses, i + 1,
             Passed(acc, repos[i], responses[i],
                    UpdateOne(repos[i], responses[i])))

\* lines 364-369, with r what the loop has done
Finish(r) ==
    /\ ops' = ops + 1
    /\ last' = Call("update_releases", <<>>, {}, 0, 0, <<>>, r.log)
    /\ before' = Remember
    /\ tracked_repos' = r.repos
    /\ data_file' = save_data(tracked_repos')
    /\ writes' = <<data_file'>> \o ItemChangedSaves(tracked_repos', 1)
    /\ table' = update_table(tracked_repos')
    /\ status_label' = IF r.updated THEN Status("new versions found", <<>>)
                       ELSE Status("all up to date", <<>>)

update_releases(responses) ==
    /\ ops < MaxOps
    /\ Finish(UpdateLoop(tracked_repos, responses, 1,
                         [repos |-> <<>>, updated |-> FALSE,
                          label |-> status_label, log |-> <<>>]))

(***************************************************************************)
(* The program                                                             *)
(***************************************************************************)
\* __init__ with no repositories.json: load_data returns {}, update_table
\* and update_releases run on the empty registry
NoProbe == [url |-> <<>>, state |-> "none", accepted |-> FALSE]

\* no text is being validated, the mods folder is empty, no thread runs
Idle ==
    /\ probe = NoProbe
    /\ mods_dir = <<>>
    /\ files = <<>>
    /\ threads = <<>>

\* the registry side after __init__
Started ==
    /\ tracked_repos = <<>>
    /\ table = <<>>
    /\ status_label = Status("all up to date", <<>>)
    /\ data_file = save_data(<<>>)
    /\ writes = <<data_file>>
    /\ ops = 0
    /\ last = [op |-> "__init__", url |-> <<>>, rows |-> {}, row |-> 0,
               column |-> 0, text |-> <<>>, log |-> NoLog, pre |-> <<>>,
               pre_table |-> <<>>]
    /\ before = [op |-> "none", log |-> NoLog]

Init ==
    /\ Idle
    /\ Started

AddRepo ==
    /\ ops < MaxOps
    /\ \E text \in UrlInputs : add_repo_from_input(text)
    /\ UNCHANGED other_vars

ItemChanged ==
    /\ ops < MaxOps
    /\ \E row \in 0..(Len(table) - 1), column \in {0, 1}, text \in NameInputs :
           on_item_changed(row, column, text)
    /\ UNCHANGED other_vars

DeleteSelected ==
    /\ ops < MaxOps
    /\ \E selected_rows \in SUBSET (0..(Len(table) - 1)) :
           selected_rows # {} /\ delete_selected(selected_rows)
    /\ UNCHANGED other_vars

\* one response for every key, in registry order
RECURSIVE ResponseVectors(_, _)
ResponseVectors(repos, i) ==
    IF i > Len(repos) THEN {<<>>}
    ELSE {<<r>> \o v : r \in ResponsesFor(repos[i].url),
                       v \in ResponseVectors(repos, i + 1)}

UpdateReleases ==
    /\ ops < MaxOps
    /\ \E responses \in ResponseVectors(tracked_repos, 1) :
           update_releases(responses)
    /\ UNCHANGED other_vars

Next == AddRepo \/ ItemChanged \/ DeleteSelected \/ UpdateReleases

Spec == Init /\ [][Next]_vars

(***************************************************************************)
(* The program with its process dying inside save_data and being started   *)
(* again.                                                                  *)
(***************************************************************************)
Running == last.op # "crash"

\* save_data(repos) cut short: open(..., "w") has emptied the file and the
\* first k pieces of the text have reached it when the process dies
CrashInSave(url, repos, k) ==
    /\ ops' = ops + 1
    /\ last' = Call("crash", url, {}, 0, 0, <<>>, NoLog)
    /\ before' = Remember
    /\ tracked_repos' = repos
    /\ data_file' = SubSeq(save_data(repos), 1, k)
    /\ writes' = <<data_file'>>
    /\ UNCHANGED <<table, status_label>>

\* add_repo_from_input up to its save_data (line 269), where the process dies
CrashInAdd ==
    /\ ops < MaxOps
    /\ Running
    /\ Len(tracked_repos) < MaxSources
    /\ \E url \in Urls :
           /\ url # <<>>
           /\ IsValid[url]
           /\ \A i \in DOMAIN tracked_repos : tracked_repos[i].url # url
           /\ \E k \in 0..(Len(tracked_repos) + 4) :
                  CrashInSave(url, Append(tracked_repos, NewEntry(url)), k)
    /\ UNCHANGED other_vars

\* __init__ from load_data on: update_table, then update_releases
Restarted(loaded, r) ==
    /\ tracked_repos' = r.repos
    /\ data_file' = save_data(r.repos)
    /\ writes' = ItemChangedSaves(loaded, 1) \o <<data_file'>>
                     \o ItemChangedSaves(r.repos, 1)
    /\ table' = update_table(r.repos)
    /\ status_label' = IF r.updated THEN Status("new versions found", <<>>)
                       ELSE Status("all up to date", <<>>)
    /\ last' = [op |-> "update_releases", url |-> <<>>, rows |-> {}, row |-> 0,
                column |-> 0, text |-> <<>>, log |-> r.log, pre |-> loaded,
                pre_table |-> update_table(loaded)]
    /\ before' = Remember
    /\ ops' = ops

Restart ==
    /\ ~Running
    /\ \E responses \in ResponseVectors(load_data(data_file), 1) :
           Restarted(load_data(data_file),
                     UpdateLoop(load_data(data_file), responses, 1,
                                [repos |-> <<>>, updated |-> FALSE,
                                 label |-> status_label, log |-> <<>>]))
    /\ UNCHANGED other_vars

CrashNext ==
    \/ Running /\ AddRepo
    \/ Running /\ ItemChanged
    \/ Running /\ DeleteSelected
    \/ Running /\ UpdateReleases
    \/ CrashInAdd
    \/ Restart

CrashSpec == Init /\ [][CrashNext]_vars

(***************************************************************************)
(* download_release and the threads that run download_file                 *)
(***************************************************************************)
\* most download threads in one run
MaxDownloads == 2

chunk_size == 8192

KB == 1024

\* What upstream does with the request of download_file: requests.get
\* raises, or answers with a status, a content-length (0: no such header)
\* and a body that iter_content hands over in chunks of chunk_size bytes and
\* a shorter last one; cut is the number of chunks handed over before the
\* connection breaks, -1 if it does not break.
Plan(kind, status_code, total_length, chunks, cut) ==
    [kind |-> kind, status_code |-> status_code, total_length |-> total_length,
     chunks |-> chunks, cut |-> cut]

NoPlan == Plan("none", 0, 0, <<>>, -1)

BodyChunks == <<chunk_size, 100>>

DownloadPlans ==
    {Plan("raise", 0, 0, <<>>, -1),
     Plan("http", 404, 0, <<>>, -1),
     Plan("http", 200, chunk_size + 100, BodyChunks, -1),
     Plan("http", 200, 0, BodyChunks, -1),
     Plan("http", 200, chunk_size + 100, BodyChunks, 1)}

\* the i-th chunk of the file behind asset_url, and a gap no write has filled
Chunk(asset_url, i) == [of |-> asset_url, n |-> i]

Gap == Chunk(<<>>, 0)

\* f.write(chunk) at position pos of a file
WriteAt(content, pos, chunk) ==
    IF pos <= Len(content) THEN [content EXCEPT ![pos] = chunk]
    ELSE content \o [k \in 1..(pos - 1 - Len(content)) |-> Gap] \o <<chunk>>

\* the texts signals.progress carries
Event(kind, downloaded, total_length) ==
    [kind     |-> kind,
     kb       |-> downloaded \div KB,
     total_kb |-> total_length \div KB,
     percent  |-> IF total_length # 0 THEN (downloaded * 100) \div total_length ELSE 0]

\* a thread of download_file(asset_url, save_path, signals)
NewThread(release) ==
    [asset_url |-> release.asset_url, save_path |-> release.asset_name,
     pc |-> "get", plan |-> NoPlan, fd |-> 0, wrote |-> 0, downloaded |-> 0,
     events |-> <<>>]

\* download_release for the key at position i
download_release(i) ==
    IF \/ tracked_repos[i].last_release.py # "dict"
       \/ tracked_repos[i].last_release.asset_url = None
    THEN /\ status_label' = Status("no zip", <<>>)
         /\ UNCHANGED <<threads, mods_dir, files>>
    ELSE /\ Len(threads) < MaxDownloads
         /\ status_label' = Status("download starting",
                                   tracked_repos[i].last_release.asset_name)
         /\ threads' = Append(threads, NewThread(tracked_repos[i].last_release))
         /\ UNCHANGED <<mods_dir, files>>

\* open(save_path, 'wb'): a new empty file, or the file of that name emptied
Opened(t, plan, name) ==
    /\ IF mods_dir[name] = 0
       THEN /\ files' = Append(files, <<>>)
            /\ mods_dir' = [mods_dir EXCEPT ![name] = Len(files) + 1]
       ELSE /\ files' = [files EXCEPT ![mods_dir[name]] = <<>>]
            /\ UNCHANGED mods_dir
    /\ threads' = [threads EXCEPT ![t].plan = plan, ![t].pc = "read",
                                  ![t].fd = mods_dir'[name]]
    /\ UNCHANGED status_label

\* Except without the os.remove
ExceptKeepFile(t, th) ==
    /\ threads' = [threads EXCEPT
                      ![t] = [th EXCEPT
                                 !.pc = "done",
                                 !.events =
                                     Append(th.events,
                                            Event("failed", th.downloaded,
                                                  th.plan.total_length))]]
    /\ status_label' = Status("download error", th.save_path)
    /\ UNCHANGED <<mods_dir, files>>

\* the except clause: emit the error, remove save_path if it exists
Except(t, th) ==
    /\ threads' = [threads EXCEPT
                      ![t] = [th EXCEPT
                                 !.pc = "done",
                                 !.events =
                                     Append(th.events,
                                            Event("failed", th.downloaded,
                                                  th.plan.total_length))]]
    /\ status_label' = Status("download error", th.save_path)
    /\ mods_dir' = [mods_dir EXCEPT ![th.save_path] = 0]
    /\ UNCHANGED files

\* download_file up to its first step on the mods folder: requests.get and
\* r.raise_for_status(), then the except clause if one of them raised, else
\* open(save_path, 'wb')
Got(t, plan) ==
    IF plan.kind = "raise" \/ plan.status_code >= 400
    THEN Except(t, [threads[t] EXCEPT !.plan = plan])
    ELSE Opened(t, plan, threads[t].save_path)

\* Wrote that emits the progress before it adds len(chunk) to downloaded
WroteEmitFirst(t, th, len) ==
    /\ files' = [files EXCEPT
                    ![th.fd] = WriteAt(files[th.fd], th.wrote + 1,
                                       Chunk(th.asset_url, th.wrote + 1))]
    /\ threads' = [threads EXCEPT
                      ![t].wrote = th.wrote + 1,
                      ![t].downloaded = th.downloaded + len,
                      ![t].events =
                          Append(th.events,
                                 Event("progress", th.downloaded,
                                       th.plan.total_length))]
    /\ status_label' = Status("download progress", th.save_path)
    /\ UNCHANGED mods_dir

\* f.write(chunk), downloaded += len(chunk), signals.progress.emit(...)
Wrote(t, th, len) ==
    /\ files' = [files EXCEPT
                    ![th.fd] = WriteAt(files[th.fd], th.wrote + 1,
                                       Chunk(th.asset_url, th.wrote + 1))]
    /\ threads' = [threads EXCEPT
                      ![t].wrote = th.wrote + 1,
                      ![t].downloaded = th.downloaded + len,
                      ![t].events =
                          Append(th.events,
                                 Event("progress", th.downloaded + len,
                                       th.plan.total_length))]
    /\ status_label' = Status("download progress", th.save_path)
    /\ UNCHANGED mods_dir

\* one round of `for chunk in r.iter_content(...)`: the connection breaks,
\* the file is closed and the except clause runs; or a chunk comes and is
\* written; or the body has ended, the file is closed and
\* "Загрузка завершена" is emitted
Read(t, th) ==
    IF th.wrote = th.plan.cut
    THEN Except(t, th)
    ELSE IF th.wrote < Len(th.plan.chunks)
    THEN Wrote(t, th, th.plan.chunks[th.wrote + 1])
    ELSE /\ threads' = [threads EXCEPT
                           ![t].pc = "done",
                           ![t].events =
                               Append(th.events,
                                      Event("complete", th.downloaded,
                                            th.plan.total_length))]
         /\ status_label' = Status("download complete", th.save_path)
         /\ UNCHANGED <<mods_dir, files>>

registry_vars == <<tracked_repos, table, data_file, writes, ops, last, before, probe>>

DownloadRelease ==
    /\ \E i \in DOMAIN tracked_repos : download_release(i)
    /\ UNCHANGED registry_vars

ThreadGet ==
    /\ \E t \in DOMAIN threads, plan \in DownloadPlans :
           threads[t].pc = "get" /\ Got(t, plan)
    /\ UNCHANGED registry_vars

ThreadRead ==
    /\ \E t \in DOMAIN threads : threads[t].pc = "read" /\ Read(t, threads[t])
    /\ UNCHANGED registry_vars

\* The program after two sources were added and update_releases ran: r is
\* what its loop has done.
SyncedFrom(repos, r) ==
    /\ tracked_repos = r.repos
    /\ table = update_table(r.repos)
    /\ status_label = IF r.updated THEN Status("new versions found", <<>>)
                      ELSE Status("all up to date", <<>>)
    /\ data_file = save_data(r.repos)
    /\ writes = <<data_file>> \o ItemChangedSaves(r.repos, 1)
    /\ ops = 3
    /\ last = [op |-> "update_releases", url |-> <<>>, rows |-> {}, row |-> 0,
               column |-> 0, text |-> <<>>, log |-> r.log, pre |-> repos,
               pre_table |-> update_table(repos)]
    /\ before = [op |-> "add_repo_from_input", log |-> NoLog]

\* the names download_release can save under
SavePaths(repos) ==
    {repos[i].last_release.asset_name : i \in DOMAIN repos} \ {None}

\* what upstream answered in that update_releases: a release with m.zip for
\* the repository, and for the mod no connection or a page with m.zip
DownloadSyncs ==
    {<<Ok([tag_name |-> V10, published_at |-> Date1, assets |-> <<MZip>>]), mod>> :
        mod \in {Unreachable} \cup
                 {Ok(b) : b \in {page \in ModPages : page.h1 = None /\ page.hrefs # <<>>}}}

DownloadInit ==
    /\ \E responses \in DownloadSyncs :
           SyncedFrom(<<NewEntry(UrlGhAX), NewEntry(UrlMod5)>>,
                      UpdateLoop(<<NewEntry(UrlGhAX), NewEntry(UrlMod5)>>,
                                 responses, 1,
                                 [repos |-> <<>>, updated |-> FALSE,
                                  label |-> Status("added", <<>>), log |-> <<>>]))
    /\ probe = NoProbe
    /\ mods_dir = [name \in SavePaths(tracked_repos) |-> 0]
    /\ files = <<>>
    /\ threads = <<>>

DownloadNext ==
    ThreadGet \/ ThreadRead \/ DownloadRelease

DownloadSpec == DownloadInit /\ [][DownloadNext]_vars

(***************************************************************************)
(* validate_repo_url on its own: a text is given and validated.            *)
(***************************************************************************)
ProbeSchemes == {HttpsPrefix, <<"h","t","t","p",":","/","/">>, <<>>}

ProbeHosts ==
    {GithubCom, <<"G","i","t","H","u","b",".","c","o","m">>,
     <<"w","w","w",".">> \o GithubCom, GithubCom \o <<":","4","4","3">>,
     FarmingSimulatorCom, WwwFarmingSimulatorCom,
     <<"e","x","a","m","p","l","e",".","c","o","m">>}

ProbePaths ==
    {<<>>, <<"/","f","o","o">>, <<"/","f","o","o","/","b","a","r">>,
     <<"/","f","o","o","/">>, ModPhp, ModPhp \o <<"/","x">>}

ProbeQueries ==
    {<<>>, <<"?">> \o ModId \o <<"=","5">>, <<"?">> \o ModId \o <<"=">>,
     <<"?","r","e","f","=","1","&">> \o ModId \o <<"=","5">>,
     <<"?","i","d","=","5">>}

ProbeUrls ==
    {s \o h \o p \o q :
        s \in ProbeSchemes, h \in ProbeHosts, p \in ProbePaths, q \in ProbeQueries}

ValidateInit ==
    /\ Started
    /\ mods_dir = <<>>
    /\ files = <<>>
    /\ threads = <<>>
    /\ probe \in {[url |-> u, state |-> "given", accepted |-> FALSE] : u \in ProbeUrls}

Validate ==
    /\ probe.state = "given"
    /\ probe' = [probe EXCEPT !.state = "validated",
                              !.accepted = validate_repo_url(probe.url)]
    /\ UNCHANGED <<tracked_repos, table, status_label, data_file, writes, ops,
                   last, before, mods_dir, files, threads>>

ValidateNext == Validate

ValidateSpec == ValidateInit /\ [][ValidateNext]_vars

(***************************************************************************)
(* Vocabulary of the properties.  After update_releases, last.pre is the   *)
(* registry it started from, tracked_repos the registry it left, and       *)
(* last.log[i] what the pass for the i-th key met.                         *)
(***************************************************************************)
Synced == last.op = "update_releases"

\* the request of the pass got no usable answer: no connection, or a status
\* other than success
FetchFailed(e) ==
    \/ e.response.kind = "raise"
    \/ e.response.kind = "http" /\ e.response.status_code # 200

\* the request of the pass was answered with success
FetchOk(e) == e.response.kind = "http" /\ e.response.status_code = 200

\* the provider's reading of a successful answer
Fetched(e) ==
    IF e.branch = "github" THEN GitHubReleaseOf[e.url, e.response.body]
    ELSE ModInfoOf[e.response]

\* a snapshot is absent when it is None or holds no field
Absent(r) == r.py # "dict"

PairOf(r) == <<r.version, r.asset_url>>

\* the fetched release stored as a snapshot with the given freshness
Snapshot(f, fresh) ==
    [py |-> "dict", version |-> f.version, date |-> f.date,
     asset_url |-> f.asset_url, asset_name |-> f.asset_name,
     is_new |-> fresh, name |-> f.name]

SameFields(r, q) ==
    /\ r.version = q.version /\ r.date = q.date /\ r.asset_url = q.asset_url
    /\ r.asset_name = q.asset_name /\ r.is_new = q.is_new /\ r.name = q.name

\* two snapshots are the same value: both absent, or dicts with equal fields
SameSnapshot(r, q) ==
    IF Absent(r) \/ Absent(q) THEN Absent(r) /\ Absent(q) ELSE SameFields(r, q)

ReportsChange == status_label.msg = "new versions found"

(***************************************************************************)
(* C1  A source whose fetch fails during update_releases (no connection or *)
(* a non-success answer), of either provider, has the same current and     *)
(* previous snapshot after it as before it.                                *)
(***************************************************************************)
C1_FailedFetchKeepsState ==
    Synced =>
        \A i \in DOMAIN last.log :
            FetchFailed(last.log[i]) =>
                /\ tracked_repos[i].last_release = last.pre[i].last_release
                /\ tracked_repos[i].previous_release = last.pre[i].previous_release

(***************************************************************************)
(* C2  A failure on one source (no branch takes its key, its fetch fails,  *)
(* or its pass raises) does not end update_releases: every later key gets  *)
(* its pass, one that is answered with success has the comparison applied  *)
(* to it, and the registry is saved at the end.                            *)
(***************************************************************************)
Failed(e) == e.branch = "none" \/ FetchFailed(e) \/ e.raised

PolicyApplied(i) ==
    LET f   == Fetched(last.log[i])
        old == last.pre[i]
        new == tracked_repos[i]
    IN  IF PairOf(f) # PairOf(old.last_release)
        THEN /\ new.last_release = Snapshot(f, TRUE)
             /\ SameSnapshot(new.previous_release, old.last_release)
        ELSE /\ new.last_release = [old.last_release EXCEPT !.is_new = FALSE]
             /\ new.previous_release = old.previous_release

C2_FailureDoesNotAbort ==
    Synced =>
        /\ Len(last.log) = Len(last.pre)
        /\ Len(tracked_repos) = Len(last.pre)
        /\ \A i \in DOMAIN last.pre :
               /\ last.log[i].url = last.pre[i].url
               /\ tracked_repos[i].url = last.pre[i].url
               /\ last.log[i].response \in ResponsesFor(last.pre[i].url)
               /\ FetchOk(last.log[i]) => PolicyApplied(i)
        /\ load_data(data_file) = tracked_repos

C2_Witness ==
    /\ Synced
    /\ \E j \in DOMAIN last.log, i \in DOMAIN last.log :
           /\ j < i
           /\ Failed(last.log[j])
           /\ FetchOk(last.log[i])
           /\ last.log[i].updated

(***************************************************************************)
(* C3  A source with a current snapshot whose fetch succeeds with another  *)
(* (version, asset_url) has, after update_releases, the old current as its *)
(* previous and the fetched release, fresh, as its current, and the change *)
(* is reported.                                                            *)
(***************************************************************************)
C3_RotationOnChange ==
    Synced =>
        \A i \in DOMAIN last.log :
            ( /\ FetchOk(last.log[i])
              /\ ~Absent(last.pre[i].last_release)
              /\ PairOf(Fetched(last.log[i])) # PairOf(last.pre[i].last_release) )
            => /\ tracked_repos[i].previous_release = last.pre[i].last_release
               /\ tracked_repos[i].last_release = Snapshot(Fetched(last.log[i]), TRUE)
               /\ last.log[i].updated
               /\ ReportsChange

C3_Witness ==
    /\ Synced
    /\ \E i \in DOMAIN last.log :
           /\ FetchOk(last.log[i])
           /\ ~Absent(last.pre[i].last_release)
           /\ Fetched(last.log[i]).version # last.pre[i].last_release.version
           /\ tracked_repos[i].previous_release = last.pre[i].last_release

(***************************************************************************)
(* C4  A source whose fetch succeeds is rotated and reported as changed    *)
(* exactly when the fetched (version, asset_url) differs from the current  *)
(* one: the same version with another asset_url rotates; a fetch that      *)
(* differs in name or date alone leaves previous and current as they were, *)
(* but for is_new, which becomes false, and reports no change.             *)
(***************************************************************************)
C4_ChangeIffPairDiffers ==
    Synced =>
        /\ \A i \in DOMAIN last.log :
               FetchOk(last.log[i]) =>
                   LET f   == Fetched(last.log[i])
                       old == last.pre[i]
                       new == tracked_repos[i]
                   IN  /\ last.log[i].updated <=> PairOf(f) # PairOf(old.last_release)
                       /\ last.log[i].updated =>
                              /\ new.last_release = Snapshot(f, TRUE)
                              /\ SameSnapshot(new.previous_release, old.last_release)
                       /\ ~last.log[i].updated =>
                              /\ new.last_release =
                                     [old.last_release EXCEPT !.is_new = FALSE]
                              /\ new.previous_release = old.previous_release
        /\ ReportsChange <=> \E i \in DOMAIN last.log : last.log[i].updated

\* one update_releases in which a source gets the version it has with
\* another asset_url and is rotated, and another source gets the pair it
\* has under another name and date and is left alone
C4_Witness ==
    /\ Synced
    /\ \E i \in DOMAIN last.log :
           /\ FetchOk(last.log[i])
           /\ ~Absent(last.pre[i].last_release)
           /\ Fetched(last.log[i]).version = last.pre[i].last_release.version
           /\ Fetched(last.log[i]).asset_url # last.pre[i].last_release.asset_url
           /\ last.log[i].updated
    /\ \E i \in DOMAIN last.log :
           /\ FetchOk(last.log[i])
           /\ ~Absent(last.pre[i].last_release)
           /\ PairOf(Fetched(last.log[i])) = PairOf(last.pre[i].last_release)
           /\ Fetched(last.log[i]).name # last.pre[i].last_release.name
           /\ Fetched(last.log[i]).date # last.pre[i].last_release.date
           /\ ~last.log[i].updated
           /\ last.pre[i].last_release.is_new
           /\ ~tracked_repos[i].last_release.is_new

(***************************************************************************)
(* C5  Two update_releases in a row that get the same answers from         *)
(* upstream: the second leaves the registry as the first left it, but for  *)
(* is_new, which is false on the current snapshot of every source fetched  *)
(* with success, and the second reports no change.                         *)
(***************************************************************************)
SyncedTwice ==
    /\ Synced
    /\ before.op = "update_releases"
    /\ Len(before.log) = Len(last.log)
    /\ \A i \in DOMAIN last.log : before.log[i].response = last.log[i].response

C5_SecondSyncIdempotent ==
    SyncedTwice =>
        /\ Len(tracked_repos) = Len(last.pre)
        /\ \A i \in DOMAIN last.log :
               tracked_repos[i] =
                   IF FetchOk(last.log[i])
                   THEN [last.pre[i] EXCEPT !.last_release.is_new = FALSE]
                   ELSE last.pre[i]
        /\ \A i \in DOMAIN last.log : ~last.log[i].updated
        /\ ~ReportsChange

(***************************************************************************)
(* C6  A source with no current snapshot whose fetch succeeds: after       *)
(* update_releases its current is the fetched release, fresh, the change   *)
(* is reported, and its previous is still absent.                          *)
(***************************************************************************)
C6_FirstFetchIsChange ==
    Synced =>
        \A i \in DOMAIN last.log :
            (FetchOk(last.log[i]) /\ Absent(last.pre[i].last_release)) =>
                /\ tracked_repos[i].last_release = Snapshot(Fetched(last.log[i]), TRUE)
                /\ last.log[i].updated
                /\ ReportsChange
                /\ Absent(tracked_repos[i].previous_release)

C6_Witness ==
    /\ Synced
    /\ \E i \in DOMAIN last.log :
           /\ FetchOk(last.log[i])
           /\ last.pre[i].last_release = PyNone
           /\ last.pre[i].previous_release = PyNone
           /\ ~Absent(tracked_repos[i].last_release)
           /\ tracked_repos[i].previous_release = EmptyDict

(***************************************************************************)
(* C7  Every error of one source during update_releases (a failed fetch,   *)
(* a key no branch takes, an exception in its pass) is in what             *)
(* update_releases shows when it returns, with the source it belongs to.   *)
(***************************************************************************)
C7_ErrorsReported ==
    Synced =>
        \A i \in DOMAIN last.log :
            Failed(last.log[i]) =>
                /\ status_label.msg \in {"update error", "fetch error"}
                /\ status_label.about \in
                       {last.log[i].url,
                        OwnerRepo[last.log[i].url].owner \o <<"/">>
                            \o OwnerRepo[last.log[i].url].repo}

(***************************************************************************)
(* C8  Every key add_repo_from_input accepted is taken, in                 *)
(* update_releases, by the branch of the provider whose pattern accepted   *)
(* it: the repository branch for host github.com, the mod branch for the   *)
(* farming-simulator hosts; never by the other branch and never by none.   *)
(***************************************************************************)
\* the pattern of validate_repo_url that accepts the url
PatternOf(url) ==
    LET netloc == Lower(urlparse(url).netloc)
    IN  IF netloc = GithubCom THEN "github"
        ELSE IF netloc \in {WwwFarmingSimulatorCom, FarmingSimulatorCom}
        THEN "farming-simulator"
        ELSE "none"

C8_DispatchMatchesPattern ==
    Synced =>
        \A i \in DOMAIN last.log :
            /\ IsValid[last.log[i].url]
            /\ last.log[i].branch = PatternOf(last.log[i].url)
            /\ last.log[i].response # NoResponse

(***************************************************************************)
(* C9  After delete_selected every source of a selected row is gone from   *)
(* the registry and every other source is still there with the current and *)
(* previous it had.                                                        *)
(***************************************************************************)
Deleted == last.op = "delete_selected" /\ last.rows # {}

C9_RemoveExactlySelected ==
    Deleted =>
        \A k \in DOMAIN last.pre :
            IF (k - 1) \in last.rows
            THEN \A m \in DOMAIN tracked_repos : tracked_repos[m].url # last.pre[k].url
            ELSE \E m \in DOMAIN tracked_repos : tracked_repos[m] = last.pre[k]

(***************************************************************************)
(* C10  on_item_changed for column 0 of the row of a tracked source sets   *)
(* the name of that source's current snapshot to the new text and leaves   *)
(* every other field, previous, and every other source as they were; for a *)
(* row with no key it changes nothing.                                     *)
(***************************************************************************)
Renamed == last.op = "on_item_changed" /\ last.column = 0

C10_RenameSetsNameOnly ==
    Renamed =>
        LET k == last.row + 1
        IN  IF k \in DOMAIN last.pre
            THEN /\ Len(tracked_repos) = Len(last.pre)
                 /\ tracked_repos[k].last_release.name = last.text
                 /\ [tracked_repos[k].last_release EXCEPT !.name = None]
                        = [py |-> "dict", version |-> last.pre[k].last_release.version,
                           date |-> last.pre[k].last_release.date,
                           asset_url |-> last.pre[k].last_release.asset_url,
                           asset_name |-> last.pre[k].last_release.asset_name,
                           is_new |-> last.pre[k].last_release.is_new,
                           name |-> None]
                 /\ tracked_repos[k].previous_release = last.pre[k].previous_release
                 /\ \A m \in DOMAIN last.pre :
                        m # k => tracked_repos[m] = last.pre[m]
            ELSE tracked_repos = last.pre

(***************************************************************************)
(* C11  After an add_repo_from_input that adds its url, the url is the     *)
(* last entry of the registry with current and previous absent and every   *)
(* entry that was there keeps its state and place; an entry whose current  *)
(* and previous are absent keeps them absent through every call that is    *)
(* not update_releases.                                                    *)
(***************************************************************************)
AddedStep ==
    (last'.op = "add_repo_from_input" /\ status_label'.msg = "added") =>
        /\ Len(tracked_repos') = Len(tracked_repos) + 1
        /\ SubSeq(tracked_repos', 1, Len(tracked_repos)) = tracked_repos
        /\ tracked_repos'[Len(tracked_repos')].url = last'.url
        /\ Absent(tracked_repos'[Len(tracked_repos')].last_release)
        /\ Absent(tracked_repos'[Len(tracked_repos')].previous_release)

StaysAbsentStep ==
    last'.op # "update_releases" =>
        \A i \in DOMAIN tracked_repos, j \in DOMAIN tracked_repos' :
            ( /\ tracked_repos'[j].url = tracked_repos[i].url
              /\ Absent(tracked_repos[i].last_release)
              /\ Absent(tracked_repos[i].previous_release) )
            => /\ Absent(tracked_repos'[j].last_release)
               /\ Absent(tracked_repos'[j].previous_release)

C11_AddAppendsAbsent == [][AddedStep /\ StaysAbsentStep]_vars

\* a url is added to a registry that holds a synced source
C11_Witness ==
    /\ last.op = "add_repo_from_input"
    /\ status_label.msg = "added"
    /\ \E i \in DOMAIN last.pre : ~Absent(last.pre[i].last_release)
    /\ Len(tracked_repos) = Len(last.pre) + 1

(***************************************************************************)
(* C12  An add_repo_from_input that is rejected, because the url is not    *)
(* valid or is already a key, leaves the registry and repositories.json as *)
(* they were.                                                              *)
(***************************************************************************)
Rejected == status_label.msg \in {"invalid url", "already tracked"}

C12_RejectedAddChangesNothing ==
    [][ (last'.op = "add_repo_from_input" /\ Rejected') =>
            /\ tracked_repos' = tracked_repos
            /\ data_file' = data_file
            /\ writes' = <<>> ]_vars

\* the url of a synced source is entered again
C12_Witness ==
    /\ last.op = "add_repo_from_input"
    /\ status_label.msg = "already tracked"
    /\ \E i \in DOMAIN tracked_repos :
           /\ tracked_repos[i].url = last.url
           /\ ~Absent(tracked_repos[i].last_release)

(***************************************************************************)
(* C13  Only delete_selected takes a key out of the registry: through      *)
(* every other call each key stays, at the place it had.                   *)
(***************************************************************************)
C13_OnlyDeleteRemoves ==
    [][ last'.op # "delete_selected" =>
            /\ Len(tracked_repos') >= Len(tracked_repos)
            /\ \A i \in DOMAIN tracked_repos :
                   tracked_repos'[i].url = tracked_repos[i].url ]_vars

\* an update_releases over two sources in which a fetch failed
C13_Witness ==
    /\ Synced
    /\ Len(last.pre) >= 2
    /\ Len(tracked_repos) = Len(last.pre)
    /\ \E i \in DOMAIN last.log : FetchFailed(last.log[i])

(***************************************************************************)
(* C15  After every handler call repositories.json holds the registry that *)
(* is in memory, and update_releases writes the file exactly once, after   *)
(* its loop.                                                               *)
(***************************************************************************)
C15_SavedOncePerSync ==
    /\ load_data(data_file) = tracked_repos
    /\ Synced => writes = <<save_data(tracked_repos)>>

(***************************************************************************)
(* C14  validate_repo_url accepts a url exactly when its host is           *)
(* github.com and its first two path segments are non-empty, or its host   *)
(* is farming-simulator.com or www.farming-simulator.com, its path is      *)
(* /mod.php and its query string has a mod_id parameter.                   *)
(***************************************************************************)
Validated == probe.state = "validated"

\* the host of a netloc: without user information and port, in lower case
HostOf(netloc) ==
    Lower(Partition(AfterLast(netloc, <<"@">>), ":").head)

\* the query string has a parameter of this name
HasParameter(query, name) ==
    \E k \in DOMAIN Split(query, "&") :
        Partition(Split(query, "&")[k], "=").head = name

Reference(url) ==
    LET parsed   == urlparse(url)
        host     == HostOf(parsed.netloc)
        segments == Split(Strip(parsed.path, {"/"}), "/")
    IN  \/ /\ host = GithubCom
           /\ Len(segments) >= 2
           /\ segments[1] # <<>>
           /\ segments[2] # <<>>
        \/ /\ host \in {FarmingSimulatorCom, WwwFarmingSimulatorCom}
           /\ parsed.path = ModPhp
           /\ HasParameter(parsed.query, ModId)

\* the five urls the claim names
ExampleGhFooBar == HttpsPrefix \o GithubCom \o <<"/","f","o","o","/","b","a","r">>

ExampleGhFoo == HttpsPrefix \o GithubCom \o <<"/","f","o","o">>

ExampleOtherHost ==
    HttpsPrefix \o <<"e","x","a","m","p","l","e",".","c","o","m">> \o ModPhp
        \o <<"?">> \o ModId \o <<"=","5">>

ExampleMod5 == HttpsPrefix \o WwwFarmingSimulatorCom \o ModPhp \o <<"?">> \o ModId \o <<"=","5">>

ExampleNoModId == HttpsPrefix \o WwwFarmingSimulatorCom \o ModPhp

ExamplesAnswered ==
    /\ probe.url \in {ExampleGhFooBar, ExampleMod5} => probe.accepted
    /\ probe.url \in {ExampleGhFoo, ExampleOtherHost, ExampleNoModId} => ~probe.accepted

C14_AcceptsIffReference ==
    Validated =>
        /\ probe.accepted <=> Reference(probe.url)
        /\ ExamplesAnswered

\* C14 as amended: the url is accepted exactly when what stands between
\* "//" and the path, in lower case, is github.com and the path, without the
\* slashes at its ends, starts with two non-empty segments, or it is
\* farming-simulator.com or www.farming-simulator.com, the path is /mod.php
\* and the query string has a mod_id parameter with a non-empty value.
TwoSegments(path) ==
    \E i \in 2..(Len(path) - 1) :
        /\ path[i] = "/"
        /\ path[i + 1] # "/"
        /\ \A j \in 1..(i - 1) : path[j] # "/"

HasValuedParameter(query, name) ==
    \E i \in 1..Len(query) :
        /\ i = 1 \/ query[i - 1] = "&"
        /\ i + Len(name) + 1 <= Len(query)
        /\ SubSeq(query, i, i + Len(name)) = name \o <<"=">>
        /\ query[i + Len(name) + 1] # "&"

AmendedReference(url) ==
    LET parsed == urlparse(url)
        netloc == Lower(parsed.netloc)
    IN  \/ /\ netloc = GithubCom
           /\ TwoSegments(Strip(parsed.path, {"/"}))
        \/ /\ netloc \in {FarmingSimulatorCom, WwwFarmingSimulatorCom}
           /\ parsed.path = ModPhp
           /\ HasValuedParameter(parsed.query, ModId)

C14_AcceptsIffNetlocPattern ==
    Validated =>
        /\ probe.accepted <=> AmendedReference(probe.url)
        /\ ExamplesAnswered

\* the mod url the claim names has been validated and accepted
C14_Witness ==
    /\ Validated
    /\ probe.url = ExampleMod5
    /\ probe.accepted

(***************************************************************************)
(* C16  When the process dies inside save_data, repositories.json holds    *)
(* the whole registry saved before or the whole registry being saved:      *)
(* load_data returns one of the two, never an empty or cut registry.       *)
(***************************************************************************)
C16_CrashKeepsOldOrNew ==
    last.op = "crash" => load_data(data_file) \in {last.pre, tracked_repos}

(***************************************************************************)
(* Vocabulary of the properties of downloads                               *)
(***************************************************************************)
LastEvent(th) == th.events[Len(th.events)]

Ended(th, kind) == th.pc = "done" /\ LastEvent(th).kind = kind

\* the whole file behind the thread's asset_url
FullContent(th) == [k \in DOMAIN th.plan.chunks |-> Chunk(th.asset_url, k)]

(***************************************************************************)
(* C17  A download whose connection breaks after it has written one or     *)
(* more chunks emits the error as its last event and leaves no file at its *)
(* save_path.                                                              *)
(***************************************************************************)
C17_FailedDownloadLeavesNoFile ==
    [][ \A t \in DOMAIN threads :
            ( /\ threads[t].pc = "read"
              /\ threads[t].wrote >= 1
              /\ threads[t].wrote = threads[t].plan.cut
              /\ threads'[t] # threads[t] )
            => /\ Ended(threads'[t], "failed")
               /\ mods_dir'[threads[t].save_path] = 0 ]_vars

\* a download has failed after writing a chunk and its file is gone
C17_Witness ==
    \E t \in DOMAIN threads :
        /\ Ended(threads[t], "failed")
        /\ threads[t].wrote >= 1
        /\ files[threads[t].fd] # <<>>
        /\ mods_dir[threads[t].save_path] = 0

(***************************************************************************)
(* C18  A download answered with a status that is not a success fails at   *)
(* once and changes nothing in the mods folder: the file at its save_path, *)
(* if there is one, stays as it is.                                        *)
(***************************************************************************)
C18_RejectedDownloadWritesNothing ==
    [][ \A t \in DOMAIN threads :
            ( /\ threads[t].pc = "get"
              /\ threads'[t].plan.kind = "http"
              /\ threads'[t].plan.status_code # 200 )
            => /\ Ended(threads'[t], "failed")
               /\ mods_dir' = mods_dir
               /\ files' = files ]_vars

(***************************************************************************)
(* C19  Whenever a download emits "complete", also while other downloads   *)
(* to the same save_path run or fail, the file at its save_path exists and *)
(* holds the whole content of that download.                               *)
(***************************************************************************)
C19_CompleteMeansWholeFile ==
    [][ \A t \in DOMAIN threads :
            ( threads[t].pc = "read" /\ Ended(threads'[t], "complete") )
            => /\ mods_dir'[threads[t].save_path] # 0
               /\ files'[mods_dir'[threads[t].save_path]] = FullContent(threads[t]) ]_vars

(***************************************************************************)
(* C20  The events of a download that completes: every event before        *)
(* "complete" is a progress, their transferred amounts never decrease,     *)
(* "complete" is the last event, and when content-length is known the last *)
(* progress shows the total (100 percent).                                 *)
(***************************************************************************)
C20_ProgressMonotone ==
    \A t \in DOMAIN threads :
        /\ \A k \in DOMAIN threads[t].events :
               threads[t].events[k].kind # "progress" =>
                   k = Len(threads[t].events) /\ threads[t].pc = "done"
        /\ \A k \in 2..Len(threads[t].events) :
               threads[t].events[k].kb >= threads[t].events[k - 1].kb
        /\ ( Ended(threads[t], "complete") /\ threads[t].plan.total_length # 0 ) =>
               /\ Len(threads[t].events) >= 2
               /\ threads[t].downloaded = threads[t].plan.total_length
               /\ threads[t].events[Len(threads[t].events) - 1].kb
                      = threads[t].plan.total_length \div KB
               /\ threads[t].events[Len(threads[t].events) - 1].percent = 100

\* a download of known length has completed after two progress events
C20_Witness ==
    \E t \in DOMAIN threads :
        /\ Ended(threads[t], "complete")
        /\ threads[t].plan.total_length # 0
        /\ Len(threads[t].events) = 3
        /\ threads[t].events[1].kb <= threads[t].events[2].kb
        /\ threads[t].events[2].percent = 100

(***************************************************************************)
(* C21  In every state reached from the empty registry by the handlers,    *)
(* for every key: when previous holds a snapshot, current holds one too    *)
(* and the (version, asset_url) of previous is not that of current.        *)
(***************************************************************************)
C21_PreviousDiffersFromCurrent ==
    \A i \in DOMAIN tracked_repos :
        ~Absent(tracked_repos[i].previous_release) =>
            /\ ~Absent(tracked_repos[i].last_release)
            /\ PairOf(tracked_repos[i].previous_release)
                   # PairOf(tracked_repos[i].last_release)

\* a source whose previous holds a snapshot has been synced again with the
\* release it has
C21_Witness ==
    /\ Synced
    /\ \E i \in DOMAIN tracked_repos :
           /\ ~Absent(tracked_repos[i].previous_release)
           /\ ~Absent(last.pre[i].previous_release)
           /\ FetchOk(last.log[i])
           /\ ~last.log[i].updated

====
